---- MODULE Spec2Model ----
(***************************************************************************)
(* Model of src/main.cpp: the fork-join counter custom_parallel_count and  *)
(* the benchmark driver (main, run_experiment) that sweeps it over thread  *)
(* counts.                                                                 *)
(*                                                                         *)
(* Two specifications share the variables:                                 *)
(*   Spec      the whole program, from main's loop to its return;          *)
(*   SpecCall  one call of custom_parallel_count on arbitrary arguments.   *)
(*                                                                         *)
(* Indices are 0-based as in the source: a block is the half-open range    *)
(* [first, last) of offsets from begin.  Vectors are TLA+ sequences, so    *)
(* offset k is element k + 1.  All integers of the program stay far below  *)
(* the width of int and size_t within the bounds, so no wrap-around is     *)
(* modelled.                                                               *)
(***************************************************************************)
EXTENDS Integers, Sequences, FiniteSets, TLC

\* ---------------------------------------------------------------- bounds
\* longest vector of the model (the program's vectors are cut to this length)
MaxLen == 3
\* largest value reported by thread::hardware_concurrency()
MaxH == 2
\* largest thread count requested in SpecCall
MaxK == 4
\* largest elapsed time, in ms, returned by measure_time_ms
MaxTime == 1

\* ------------------------------------------------------- program constants
\* LLONG_MAX is 2^63 - 1 in the source; the model uses the largest integer of
\* the model checker, which likewise exceeds every elapsed time.
LLONG_MAX == 2147483647

data_sizes == <<100000, 1000000, 5000000>>

predicates_first_only == <<"is_greater_than_500k">>

\* the predicates main passes to run_experiment for each data size, in order
predicates == <<"is_greater_than_500k", "is_divisible_by_7">>

\* fallback of run_experiment when hardware_concurrency() reports 0
FallbackThreads == 4

\* the values the generator draws in the model: the two ends of its range
\* [0, 1000000]; each predicate holds of one and fails of the other
Elems == {0, 1000000}

\* the elements of the vectors of SpecCall: one value for each combination of
\* the two predicates
CallElems == {0, 500000, 500003, 1000000}

\* ------------------------------------------------------------ pure helpers
Min2(a, b) == IF a < b THEN a ELSE b

is_greater_than_500k(x) == x > 500000

is_divisible_by_7(x) == x % 7 = 0

Holds(p, x) ==
    IF p = "is_greater_than_500k" THEN is_greater_than_500k(x)
    ELSE is_divisible_by_7(x)

\* std::count_if over the offsets [first, last) of seq
RECURSIVE count_if(_, _, _, _)
count_if(seq, first, last, p) ==
    IF first >= last THEN 0
    ELSE (IF Holds(p, seq[first + 1]) THEN 1 ELSE 0)
         + count_if(seq, first + 1, last, p)

\* std::accumulate over the slots 0 .. n-1 of a partial-result vector
RECURSIVE accumulate(_, _)
accumulate(pr, n) ==
    IF n <= 0 THEN 0 ELSE pr[n - 1] + accumulate(pr, n - 1)

\* the vectors of a given length over a set of elements
RECURSIVE Vectors(_, _)
Vectors(len, elems) ==
    IF len = 0 THEN {<<>>}
    ELSE {Append(v, e) : v \in Vectors(len - 1, elems), e \in elems}

\* length of the model's vector for a data size: one element for each million
\* begun, at most MaxLen
VecLen(size) == Min2(size \div 1000000 + 1, MaxLen)

\* the vectors the generator can return for a size (any seed)
generate_random_vector(size) == Vectors(VecLen(size), Elems)

\* ------------------------------------------------------------------- state
VARIABLES
    hw,               \* value reported by thread::hardware_concurrency()
    pc,               \* position of the main thread
    size_i,           \* main: index of data_size in data_sizes
    pred_i,           \* main: which run_experiment call of this size is next
    numbers,          \* the vector
    predicate,        \* the predicate of the current experiment / call
    hardware_threads, \* run_experiment local
    num_threads,      \* run_experiment loop variable = requested thread count
    best_threads,     \* run_experiment local
    best_time,        \* run_experiment local
    result,           \* value returned by the last count
    total_size,       \* custom_parallel_count local
    cpc_num_threads,  \* custom_parallel_count's parameter num_threads
    block_size,       \* custom_parallel_count local
    block_start,      \* custom_parallel_count local
    i,                \* custom_parallel_count spawn-loop variable
    joined,           \* number of threads the join loop has joined
    threads,          \* vector<thread>: [i, first, last, st] per worker
    partial_results,  \* custom_parallel_count local, slots 0 .. n-1
    writers,          \* observation: who wrote each slot, in order
    trials,           \* observation: the "Threads = K -> t ms" lines printed
    experiments,      \* observation: the run_experiment calls made so far
    gen_count,        \* observation: calls of generate_random_vector so far
    exit_status       \* "none" while running, "0" after return 0, "abnormal"

mainVars == <<size_i, pred_i, hardware_threads, best_threads, best_time,
              trials, experiments, gen_count, exit_status>>

callVars == <<total_size, cpc_num_threads, block_size, block_start, i, joined,
              threads, partial_results, writers>>

vars == <<hw, pc, numbers, predicate, num_threads, result, mainVars, callVars>>

NoSlots == [s \in {} |-> 0]

CallLocalsInit ==
    /\ total_size = 0
    /\ cpc_num_threads = 0
    /\ block_size = 0
    /\ block_start = 0
    /\ i = 0
    /\ joined = 0
    /\ threads = <<>>
    /\ partial_results = NoSlots
    /\ writers = NoSlots

MainLocalsInit ==
    /\ size_i = 1
    /\ pred_i = 1
    /\ hardware_threads = 0
    /\ best_threads = 1
    /\ best_time = LLONG_MAX
    /\ trials = <<>>
    /\ experiments = <<>>
    /\ gen_count = 0
    /\ exit_status = "none"

\* ------------------------------------------------- custom_parallel_count

IsDegenerateNoEmptyCheck(size, k) == k <= 1

\* lines 28-30: empty range or at most one thread requested
IsDegenerate(size, k) == size = 0 \/ k <= 1

Fallback ==
    /\ pc = "call"
    /\ IsDegenerate(Len(numbers), num_threads)
    /\ total_size' = Len(numbers)
    /\ cpc_num_threads' = num_threads
    /\ result' = count_if(numbers, 0, Len(numbers), predicate)
    /\ pc' = "returned"
    /\ UNCHANGED <<hw, numbers, predicate, num_threads, mainVars, block_size,
                   block_start, i, joined, threads, partial_results, writers>>

EnterParallel ==
    /\ pc = "call"
    /\ ~IsDegenerate(Len(numbers), num_threads)
    /\ total_size' = Len(numbers)
    /\ cpc_num_threads' = num_threads
    /\ pc' = "clamp"
    /\ UNCHANGED <<hw, numbers, predicate, num_threads, result, mainVars,
                   block_size, block_start, i, joined, threads,
                   partial_results, writers>>

ClampThreadsNone(k, h) == k

\* line 32
ClampThreads(k, h) == Min2(k, h)

\* lines 32-37 with at least one effective thread
Clamp ==
    /\ pc = "clamp"
    /\ LET n == ClampThreads(cpc_num_threads, hw) IN
        /\ n > 0
        /\ cpc_num_threads' = n
        /\ partial_results' = [s \in 0 .. n - 1 |-> 0]
        /\ writers' = [s \in 0 .. n - 1 |-> <<>>]
        /\ block_size' = total_size \div n
    /\ threads' = <<>>
    /\ block_start' = 0
    /\ i' = 0
    /\ joined' = 0
    /\ pc' = "spawn"
    /\ UNCHANGED <<hw, numbers, predicate, num_threads, result, mainVars,
                   total_size>>

\* lines 32-37 when hardware_concurrency() is 0: total_size / 0 is undefined.
\* The build either traps (integer divide fault) or goes on with some value
\* in block_size and no thread at all.
ClampZero ==
    /\ pc = "clamp"
    /\ ClampThreads(cpc_num_threads, hw) = 0
    /\ cpc_num_threads' = 0
    /\ partial_results' = NoSlots
    /\ writers' = NoSlots
    /\ threads' = <<>>
    /\ block_start' = 0
    /\ i' = 0
    /\ joined' = 0
    /\ \/ /\ pc' = "crashed"
          /\ exit_status' = "abnormal"
          /\ UNCHANGED block_size
       \/ /\ pc' = "spawn"
          /\ block_size' \in {0, total_size}
          /\ UNCHANGED exit_status
    /\ UNCHANGED <<hw, numbers, predicate, num_threads, result, total_size,
                   size_i, pred_i, hardware_threads, best_threads, best_time,
                   trials, experiments, gen_count>>

BlockEndNoRemainder(idx, n, start, bsize, size) == start + bsize

\* line 40
BlockEnd(idx, n, start, bsize, size) ==
    IF idx = n - 1 THEN size ELSE start + bsize

NextBlockStartStuck(start, end) == start

\* line 44
NextBlockStart(start, end) == end

\* lines 39-45: one iteration of the spawn loop
Spawn ==
    /\ pc = "spawn"
    /\ i < cpc_num_threads
    /\ LET block_end == BlockEnd(i, cpc_num_threads, block_start, block_size,
                                 total_size) IN
        /\ threads' = Append(threads, [i |-> i, first |-> block_start,
                                       last |-> block_end, st |-> "running"])
        /\ block_start' = NextBlockStart(block_start, block_end)
    /\ i' = i + 1
    /\ UNCHANGED <<hw, pc, numbers, predicate, num_threads, result, mainVars,
                   total_size, cpc_num_threads, block_size, joined,
                   partial_results, writers>>

\* line 39: the loop condition fails
SpawnDone ==
    /\ pc = "spawn"
    /\ i >= cpc_num_threads
    /\ pc' = "join"
    /\ UNCHANGED <<hw, numbers, predicate, num_threads, result, mainVars,
                   callVars>>

WorkerSlotShared(idx) == 0

\* lines 41-42: the slot the worker with captured index idx writes
WorkerSlot(idx) == idx

\* lines 41-43: the body of worker w
WorkerRun(w) ==
    /\ w \in 1 .. Len(threads)
    /\ threads[w].st = "running"
    /\ LET t == threads[w]
           slot == WorkerSlot(t.i) IN
        /\ partial_results' = [partial_results EXCEPT
               ![slot] = count_if(numbers, t.first, t.last, predicate)]
        /\ writers' = [writers EXCEPT ![slot] = Append(@, t.i)]
    /\ threads' = [threads EXCEPT ![w].st = "done"]
    /\ UNCHANGED <<hw, pc, numbers, predicate, num_threads, result, mainVars,
                   total_size, cpc_num_threads, block_size, block_start, i,
                   joined>>

JoinReturnsAtOnce(t) == TRUE

\* line 47: thread::join returns once the thread has finished
JoinReturns(t) == t.st = "done"

\* line 47: one iteration of the join loop
Join ==
    /\ pc = "join"
    /\ joined < Len(threads)
    /\ JoinReturns(threads[joined + 1])
    /\ joined' = joined + 1
    /\ UNCHANGED <<hw, pc, numbers, predicate, num_threads, result, mainVars,
                   total_size, cpc_num_threads, block_size, block_start, i,
                   threads, partial_results, writers>>

\* lines 47-48: the join loop is over, sum the slots and return
Accumulate ==
    /\ pc = "join"
    /\ joined >= Len(threads)
    /\ result' = accumulate(partial_results, cpc_num_threads)
    /\ pc' = "returned"
    /\ UNCHANGED <<hw, numbers, predicate, num_threads, mainVars, callVars>>

CallNext ==
    \/ Fallback
    \/ EnterParallel
    \/ Clamp
    \/ ClampZero
    \/ Spawn
    \/ SpawnDone
    \/ \E w \in 1 .. Len(threads) : WorkerRun(w)
    \/ Join
    \/ Accumulate

\* one call of custom_parallel_count on arbitrary arguments
InitCall ==
    /\ hw \in 0 .. MaxH
    /\ pc = "call"
    /\ numbers \in UNION {Vectors(len, CallElems) : len \in 0 .. MaxLen}
    /\ predicate \in {predicates[p] : p \in 1 .. Len(predicates)}
    /\ num_threads \in (0 - 1) .. MaxK
    /\ result = 0
    /\ MainLocalsInit
    /\ CallLocalsInit

SpecCall == InitCall /\ [][CallNext]_vars

\* ---------------------------------------------------------- run_experiment

\* lines 75-76
DetectThreads(h) == IF h = 0 THEN FallbackThreads ELSE h

\* line 81: last thread count of the sweep
SweepLimit(h) == 2 * h

IsBetterOrEqual(time_current, best) == time_current <= best

\* line 86
IsBetter(time_current, best) == time_current < best

\* lines 60-79, entered from line 109 or 110: the four baseline counts and the
\* set-up of the sweep
BeginExperiment ==
    /\ pc = "experiment"
    /\ pred_i <= Len(predicates)
    /\ predicate' = predicates[pred_i]
    /\ result' = count_if(numbers, 0, Len(numbers), predicates[pred_i])
    /\ hardware_threads' = DetectThreads(hw)
    /\ best_threads' = 1
    /\ best_time' = LLONG_MAX
    /\ num_threads' = 1
    /\ trials' = <<>>
    /\ experiments' = Append(experiments,
           [size |-> data_sizes[size_i], predicate |-> predicates[pred_i],
            generation |-> gen_count])
    /\ pc' = "sweep"
    /\ UNCHANGED <<hw, numbers, size_i, pred_i, gen_count, exit_status,
                   callVars>>

\* lines 81-83: the loop condition holds, custom_parallel_count is called
SweepCall ==
    /\ pc = "sweep"
    /\ num_threads <= SweepLimit(hardware_threads)
    /\ pc' = "call"
    /\ UNCHANGED <<hw, numbers, predicate, num_threads, result, mainVars,
                   callVars>>

\* lines 82-90: the call has returned; its time is taken and printed, the best
\* pair is updated and the loop variable incremented.  The locals of the call
\* are gone.
Measure ==
    /\ pc = "returned"
    /\ \E time_current \in 0 .. MaxTime :
        /\ trials' = Append(trials,
               [threads |-> num_threads, time |-> time_current,
                spawned |-> Len(threads),
                blocks |-> [w \in 1 .. Len(threads) |->
                               <<threads[w].first, threads[w].last>>],
                result |-> result])
        /\ IF IsBetter(time_current, best_time)
           THEN /\ best_time' = time_current
                /\ best_threads' = num_threads
           ELSE UNCHANGED <<best_time, best_threads>>
    /\ num_threads' = num_threads + 1
    /\ total_size' = 0
    /\ cpc_num_threads' = 0
    /\ block_size' = 0
    /\ block_start' = 0
    /\ i' = 0
    /\ joined' = 0
    /\ threads' = <<>>
    /\ partial_results' = NoSlots
    /\ writers' = NoSlots
    /\ pc' = "sweep"
    /\ UNCHANGED <<hw, numbers, predicate, result, size_i, pred_i,
                   hardware_threads, experiments, gen_count, exit_status>>

\* lines 81, 92-94: the sweep is over, the best thread count is printed and
\* run_experiment returns; its locals are gone
Report ==
    /\ pc = "sweep"
    /\ num_threads > SweepLimit(hardware_threads)
    /\ pred_i' = pred_i + 1
    /\ hardware_threads' = 0
    /\ best_threads' = 1
    /\ best_time' = LLONG_MAX
    /\ num_threads' = 1
    /\ result' = 0
    /\ trials' = <<>>
    /\ pc' = "experiment"
    /\ UNCHANGED <<hw, numbers, predicate, size_i, experiments, gen_count,
                   exit_status, callVars>>

\* -------------------------------------------------------------------- main

\* lines 107-108: next data size, its vector is generated
Generate ==
    /\ pc = "loop"
    /\ size_i <= Len(data_sizes)
    /\ numbers' \in generate_random_vector(data_sizes[size_i])
    /\ gen_count' = gen_count + 1
    /\ pred_i' = 1
    /\ pc' = "experiment"
    /\ UNCHANGED <<hw, predicate, num_threads, result, size_i,
                   hardware_threads, best_threads, best_time, trials,
                   experiments, exit_status, callVars>>

\* lines 107-111: both experiments of this size are done
NextSize ==
    /\ pc = "experiment"
    /\ pred_i > Len(predicates)
    /\ size_i' = size_i + 1
    /\ pc' = "loop"
    /\ UNCHANGED <<hw, numbers, predicate, num_threads, result, pred_i,
                   hardware_threads, best_threads, best_time, trials,
                   experiments, gen_count, exit_status, callVars>>

\* lines 107, 113: the loop over the data sizes is over, return 0
MainReturn ==
    /\ pc = "loop"
    /\ size_i > Len(data_sizes)
    /\ exit_status' = "0"
    /\ pc' = "exited"
    /\ UNCHANGED <<hw, numbers, predicate, num_threads, result, size_i,
                   pred_i, hardware_threads, best_threads, best_time, trials,
                   experiments, gen_count, callVars>>

MainNext ==
    \/ Generate
    \/ BeginExperiment
    \/ SweepCall
    \/ Measure
    \/ Report
    \/ NextSize
    \/ MainReturn

\* the program, from the loop of main (lines 96-105 only print)
Init ==
    /\ hw \in 0 .. MaxH
    /\ pc = "loop"
    /\ numbers = <<>>
    /\ predicate = predicates[1]
    /\ num_threads = 1
    /\ result = 0
    /\ MainLocalsInit
    /\ CallLocalsInit

Next == MainNext \/ CallNext

Spec == Init /\ [][Next]_vars

\* ------------------------------------------------------------- properties

\* the number of elements of the vector that satisfy the predicate
SequentialCount ==
    Cardinality({k \in 1 .. Len(numbers) : Holds(predicate, numbers[k])})

\* the call in progress takes the partitioned path with H >= 1
IsPartitioned == Len(numbers) >= 1 /\ num_threads >= 2 /\ hw >= 1

\* C1: for K >= 1 and H >= 1 the value custom_parallel_count returns is the
\* number of elements of the sequence that satisfy the predicate, whatever the
\* order in which the workers ran.
C1_ParallelEqualsSequential ==
    (pc = "returned" /\ num_threads >= 1 /\ hw >= 1)
        => result = SequentialCount

C1_Witness ==
    /\ pc = "returned"
    /\ Len(threads) >= 2
    /\ total_size % Len(threads) # 0
    /\ result >= 2
    /\ partial_results[Len(threads) - 1] >= 1

\* C2: once the spawn loop is over the n = min(K, H) blocks are
\* [i*floor(L/n), (i+1)*floor(L/n)) for i < n-1 and [(n-1)*floor(L/n), L) for
\* the last, and every offset of [0, L) lies in exactly one block.
C2_BlocksPartition ==
    (IsPartitioned /\ pc \in {"join", "returned"}) =>
        LET n == Min2(num_threads, hw)
            L == Len(numbers)
            q == L \div n
        IN /\ Len(threads) = n
           /\ \A w \in 1 .. n :
                /\ threads[w].i = w - 1
                /\ threads[w].first = (w - 1) * q
                /\ threads[w].last = IF w = n THEN L ELSE w * q
           /\ \A k \in 0 .. L - 1 :
                Cardinality({w \in 1 .. n : /\ threads[w].first <= k
                                            /\ k < threads[w].last}) = 1
           /\ \A w \in 1 .. n : /\ 0 <= threads[w].first
                                /\ threads[w].first <= threads[w].last
                                /\ threads[w].last <= L

C2_Witness ==
    /\ pc = "returned"
    /\ IsPartitioned
    /\ Len(threads) >= 2
    /\ Len(threads) > Len(numbers)

\* C4: on an empty sequence, or with K <= 1, the call never creates a worker
\* and returns the linear count, which is 0 for the empty sequence.
C4_DegenerateFallback ==
    (Len(numbers) = 0 \/ num_threads <= 1) =>
        /\ pc \in {"call", "returned"}
        /\ threads = <<>>
        /\ pc = "returned" =>
              /\ result = SequentialCount
              /\ Len(numbers) = 0 => result = 0

C4_Witness ==
    /\ pc = "returned"
    /\ Len(numbers) = 0
    /\ num_threads >= 2
    /\ hw = 0
    /\ result = 0

EffectiveH == IF hw = 0 THEN 4 ELSE hw

\* the sweep of the current experiment has stopped
SweepOver == pc = "sweep" /\ num_threads > 2 * hardware_threads

\* C3: with hardware concurrency reported as 0 the runner substitutes 4 and
\* every call of the sweep completes with the count: no zero divisor, no
\* abnormal termination.
C3_ZeroConcurrencyHandled ==
    hw = 0 =>
        /\ pc # "crashed"
        /\ exit_status # "abnormal"
        /\ pc \in {"spawn", "join"} => cpc_num_threads >= 1
        /\ pc = "returned" => result = SequentialCount
        /\ pc \in {"sweep", "call", "clamp", "spawn", "join", "returned"}
              => hardware_threads = 4

\* C5 as stated: with H >= 1 a call with K >= 2 spawns min(K, H) workers, never
\* more than H exist, and a request K > H is partitioned and executed exactly
\* as the request H.
C5_ClampedAsRequestOfH ==
    hw >= 1 =>
        /\ Len(threads) <= hw
        /\ \A a \in 1 .. Len(trials) :
             trials[a].threads >= 2 =>
                /\ trials[a].spawned = Min2(trials[a].threads, hw)
                /\ trials[a].threads > hw =>
                      \A b \in 1 .. Len(trials) :
                         trials[b].threads = hw =>
                            /\ trials[a].spawned = trials[b].spawned
                            /\ trials[a].blocks = trials[b].blocks

\* C5 amended: with H >= 1 a call with K >= 2 spawns min(K, H) workers, never
\* more than H exist, and a request K > H returns what the request H returns;
\* for H >= 2 it has the same workers and blocks as the request H, for H = 1
\* it runs one worker over the whole sequence where the request 1 runs none.
C5_ClampedToH ==
    hw >= 1 =>
        /\ Len(threads) <= hw
        /\ \A a \in 1 .. Len(trials) :
             trials[a].threads >= 2 =>
                /\ trials[a].spawned = Min2(trials[a].threads, hw)
                /\ trials[a].threads > hw =>
                      \A b \in 1 .. Len(trials) :
                         trials[b].threads = hw =>
                            /\ trials[a].result = trials[b].result
                            /\ hw >= 2 =>
                                  /\ trials[a].spawned = trials[b].spawned
                                  /\ trials[a].blocks = trials[b].blocks
                            /\ hw = 1 =>
                                  /\ trials[a].spawned = 1
                                  /\ trials[a].blocks[1] = <<0, Len(numbers)>>
                                  /\ trials[b].spawned = 0

C5_Witness ==
    /\ hw >= 2
    /\ \E a \in 1 .. Len(trials) :
         /\ trials[a].threads > hw
         /\ trials[a].spawned = hw
         /\ trials[a].spawned > Len(numbers)

\* C7: the slots are summed, and the call returns, only after every worker
\* has finished and written its slot; outside a call no worker is running.
C7_JoinBarrier ==
    /\ (pc = "join" /\ joined >= Len(threads)) =>
          \A w \in 1 .. Len(threads) :
             /\ threads[w].st = "done"
             /\ writers[threads[w].i] # <<>>
    /\ pc \notin {"spawn", "join"} =>
          \A w \in 1 .. Len(threads) : threads[w].st = "done"
    /\ pc \in {"loop", "experiment", "sweep", "call", "clamp", "exited"}
          => threads = <<>>

C7_Witness ==
    /\ pc = "returned"
    /\ Len(threads) >= 2
    /\ Len(trials) >= 2
    /\ trials[Len(trials)].spawned >= 2

ExpectedExperiments ==
    <<[size |-> 100000, predicate |-> "is_greater_than_500k", generation |-> 1],
      [size |-> 100000, predicate |-> "is_divisible_by_7", generation |-> 1],
      [size |-> 1000000, predicate |-> "is_greater_than_500k", generation |-> 2],
      [size |-> 1000000, predicate |-> "is_divisible_by_7", generation |-> 2],
      [size |-> 5000000, predicate |-> "is_greater_than_500k", generation |-> 3],
      [size |-> 5000000, predicate |-> "is_divisible_by_7", generation |-> 3]>>

C9_SweepMeasuresAll ==
    /\ \A a \in 1 .. Len(trials) : trials[a].threads = a
    /\ Len(trials) <= 2 * EffectiveH
    /\ (SweepOver \/ pc = "crashed") => Len(trials) = 2 * EffectiveH

\* C10: after each trial best_time is the least elapsed time of the trials so
\* far and best_threads the smallest thread count that achieved it; this is
\* the pair reported at the end of the sweep.
C10_BestIsFirstMinimum ==
    trials # <<>> =>
        /\ \E a \in 1 .. Len(trials) :
             /\ trials[a].threads = best_threads
             /\ trials[a].time = best_time
        /\ \A b \in 1 .. Len(trials) :
             /\ trials[b].time >= best_time
             /\ trials[b].time = best_time => trials[b].threads >= best_threads

C10_Witness ==
    /\ SweepOver
    /\ best_threads >= 2
    /\ \E b \in 1 .. Len(trials) :
         /\ trials[b].threads > best_threads
         /\ trials[b].time = best_time

====
